---- MODULE Spec2Model ----
(***************************************************************************)
(* Logogen: the App component (src/App.tsx) and the media request client   *)
(* generateLogo / animateLogo (src/types.ts), as a state machine.          *)
(*                                                                         *)
(* React state is one variable per useState hook.  Every handler runs to   *)
(* its next await in one step; a step that resumes a handler is the        *)
(* settlement of the promise it awaits together with the continuation      *)
(* that the event loop runs right after it.                                *)
(***************************************************************************)
EXTENDS Integers, Sequences, FiniteSets, TLC

VARIABLES
  step, logo, animation, isGenerating, error, imageSize, aspectRatio,
  progressMessage,  \* the useState hooks, src/App.tsx 20-27
  calls,            \* the invocations of handleGenerateLogo and handleAnimate
                    \* that have not returned, each with where it waits
  checks,           \* how many invocations of checkApiKey wait, and for what
  intervals,        \* the intervals set and not cleared
  invoked           \* the handler the last step called, "" if none

state == <<step, logo, animation, isGenerating, error, imageSize, aspectRatio,
           progressMessage>>
vars == <<step, logo, animation, isGenerating, error, imageSize, aspectRatio,
          progressMessage, calls, checks, intervals, invoked>>

(***************************************************************************)
(* Bounds of the model.                                                    *)
(***************************************************************************)
MaxCalls == 2    \* handler invocations that may be in flight together
MaxChecks == 1   \* checkApiKey invocations that may be in flight together
MaxTicks == 1    \* ticks of one status-message interval
MaxParts == 3    \* parts of a candidate of a generateContent response

(***************************************************************************)
(* Values.  null and undefined are Null; a present value v is Some(v).     *)
(* A message is a sequence of tokens, so that includes() is a real search; *)
(* the empty message is <<>>, which is falsy as '' is.                      *)
(***************************************************************************)
Null == <<>>
Some(v) == <<v>>

Setup == "SETUP"
Design == "DESIGN"
Animate == "ANIMATE"
View == "VIEW"
AppStep == {Setup, Design, Animate, View}

ImageSize == {"1K", "2K", "4K"}
AspectRatio == {"1:1", "16:9", "9:16"}

loadingMessages ==
  << "Synthesizing visual concepts...",
     "Perfecting geometric proportions...",
     "Applying professional color palettes...",
     "Polishing vector edges...",
     "Optimizing for education and impact...",
     "Adding that 'More Wisdom' touch..." >>

animationMessages ==
  << "Infusing motion into the design...",
     "Calculating fluid dynamics...",
     "Rendering cinematic lighting...",
     "Bringing your brand to life...",
     "Finalizing visual storytelling...",
     "Just a moment longer, greatness takes time..." >>

KeyCheckFailedMessage ==
  << "Failed to verify API key selection. Please try again." >>
AccessRecoveryMessage ==
  << "Your API key may not have access or has been reset. Please re-select." >>
LogoFallbackMessage == << "Something went wrong while generating the logo." >>
AnimateFallbackMessage == << "Failed to animate logo." >>
NoImageMessage == << "No image data returned from model." >>
NoVideoLinkMessage == << "Failed to get video download link." >>
EntityNotFound == << "Requested entity was not found" >>

\* String.prototype.includes on token sequences
includes(msg, pat) ==
  \E i \in 1..(Len(msg) + 1) :
    /\ i + Len(pat) - 1 <= Len(msg)
    /\ SubSeq(msg, i, i + Len(pat) - 1) = pat

(***************************************************************************)
(* What the collaborators may answer.                                      *)
(***************************************************************************)
\* what the user picks in the two selects, and types in the two text areas
ChosenSizes == ImageSize \ {"2K"}
ChosenRatios == AspectRatio \ {"1:1"}
Descriptions == {"blue owl logo", "open book and sun"}
MotionPrompts == {"pages turn slowly"}

\* messages of errors thrown by the provider client or by fetch
ProviderMessages ==
  { << "404 NOT_FOUND.", "Requested entity was not found", "." >>,
    << "429 RESOURCE_EXHAUSTED" >>,
    << >> }

TextPart == [inlineData |-> Null]
InlinePart(data, mimeType) ==
  [inlineData |-> Some([data |-> data, mimeType |-> mimeType])]
Parts == {TextPart, InlinePart("iVBOR", ""), InlinePart("/9j/4", "image/jpeg")}

RECURSIVE SeqsUpTo(_, _)
SeqsUpTo(S, n) ==
  IF n = 0 THEN {<<>>}
  ELSE LET shorter == SeqsUpTo(S, n - 1)
       IN  shorter \cup {Append(s, x) : s \in {t \in shorter : Len(t) = n - 1}, x \in S}

\* a response is its candidates; a candidate is its content.parts.
\* Every response of one candidate of at most MaxParts parts, no candidate,
\* and one with the image in the second candidate:
AllResponses ==
  {<<>>} \cup {<<parts>> : parts \in SeqsUpTo(Parts, MaxParts)}
         \cup {<<<<TextPart>>, <<InlinePart("iVBOR", "")>>>>}

\* the responses the provider gives in the workflow: no candidate, text only,
\* an image with no declared type, text then a typed image, and an image in
\* the second candidate only
Responses ==
  { <<>>,
    << <<TextPart>> >>,
    << <<InlinePart("iVBOR", "")>> >>,
    << <<TextPart, InlinePart("/9j/4", "image/jpeg")>> >>,
    << <<TextPart>>, <<InlinePart("iVBOR", "")>> >> }

(***************************************************************************)
(* generateLogo, src/types.ts 28-59.  The outcome of the call for a        *)
(* response: a returned value or a thrown error.                           *)
(***************************************************************************)
Returned(v) == [ok |-> TRUE, value |-> v, message |-> <<>>]
Thrown(m) == [ok |-> FALSE, value |-> Null, message |-> m]

\* response.candidates?.[0]?.content?.parts || []
FirstCandidateParts(response) ==
  IF Len(response) = 0 THEN <<>> ELSE response[1]

dataUrl(mimeType, base64) == <<"data:", mimeType, ";base64,", base64>>

\* generateLogoScan returning the last inline part instead of the first
generateLogoScanLast(parts) ==
  LET hits == {i \in 1..Len(parts) : parts[i].inlineData # Null}
  IN  IF hits = {} THEN Thrown(NoImageMessage)
      ELSE LET i == CHOOSE k \in hits : \A j \in hits : k >= j
               base64 == parts[i].inlineData[1].data
               declared == parts[i].inlineData[1].mimeType
               mimeType == IF declared = "" THEN "image/png" ELSE declared
           IN  Returned([url |-> dataUrl(mimeType, base64),
                         base64 |-> base64,
                         mimeType |-> mimeType])

generateLogoScan(parts) ==
  LET hits == {i \in 1..Len(parts) : parts[i].inlineData # Null}
  IN  IF hits = {} THEN Thrown(NoImageMessage)
      ELSE LET i == CHOOSE k \in hits : \A j \in hits : k <= j
               base64 == parts[i].inlineData[1].data
               declared == parts[i].inlineData[1].mimeType
               mimeType == IF declared = "" THEN "image/png" ELSE declared
           IN  Returned([url |-> dataUrl(mimeType, base64),
                         base64 |-> base64,
                         mimeType |-> mimeType])

generateLogo(response) == generateLogoScan(FirstCandidateParts(response))


(***************************************************************************)
(* animateLogo, src/types.ts 61-94: what the provider and fetch may answer.*)
(***************************************************************************)
\* the download URI of the video the provider generated from an image
VideoUri(image) == <<"https://provider/video-of/", image.base64>>

\* an operation handle: its done flag and
\* response?.generatedVideos?.[0]?.video?.uri
Operations(image) ==
  {[done |-> FALSE, uri |-> Null]}
    \cup {[done |-> TRUE, uri |-> u] : u \in {Null, Some(VideoUri(image))}}

\* what fetch resolves with: the body behind the URI, or an error page
FetchResponses(uri) ==
  {[status |-> 200, body |-> <<"video", uri[2]>>],
   [status |-> 403, body |-> <<"error page">>]}

createObjectURL(blob) == <<"blob:", blob>>

\* every image generateLogo can return, and every answer about a video of one
Images == {generateLogo(r).value : r \in {q \in Responses : generateLogo(q).ok}}
AllOperations == UNION {Operations(image) : image \in Images}
AllFetchResponses == UNION {FetchResponses(VideoUri(image)) : image \in Images}

(***************************************************************************)
(* Timers of the status message, src/App.tsx 65-69 and 93-97.              *)
(***************************************************************************)
FreeId(used) == CHOOSE k \in 1..(Cardinality(used) + 1) : k \notin used

setInterval(kind) ==
  LET id == FreeId({intervals[k].id : k \in DOMAIN intervals})
  IN  [id |-> id, kind |-> kind, msgIndex |-> 0]

clearInterval(id) ==
  SelectSeq(intervals, LAMBDA t : t.id # id)

messagesOf(kind) == IF kind = "logo" THEN loadingMessages ELSE animationMessages

RemoveAt(s, i) == SubSeq(s, 1, i - 1) \o SubSeq(s, i + 1, Len(s))

(***************************************************************************)
(* checkApiKey, src/App.tsx 48-60.                                         *)
(***************************************************************************)
PendingChecks == checks.hasSelectedApiKey + checks.openSelectKey

checkApiKey ==
  /\ PendingChecks < MaxChecks
  /\ checks' = [checks EXCEPT !.hasSelectedApiKey = @ + 1]
  /\ invoked' = "checkApiKey"
  /\ UNCHANGED <<state, calls, intervals>>

\* line 50 resolves with true: lines 51-52
checkApiKeyHasKey ==
  /\ checks.hasSelectedApiKey > 0
  /\ checks' = [checks EXCEPT !.hasSelectedApiKey = @ - 1]
  /\ step' = Design
  /\ invoked' = ""
  /\ UNCHANGED <<logo, animation, isGenerating, error, imageSize, aspectRatio,
                 progressMessage, calls, intervals>>

\* line 50 resolves with false: line 54 calls openSelectKey and awaits it
checkApiKeyNoKey ==
  /\ checks.hasSelectedApiKey > 0
  /\ checks' = [checks EXCEPT !.hasSelectedApiKey = @ - 1, !.openSelectKey = @ + 1]
  /\ invoked' = ""
  /\ UNCHANGED <<state, calls, intervals>>

\* line 54 resolves: line 55
checkApiKeySelected ==
  /\ checks.openSelectKey > 0
  /\ checks' = [checks EXCEPT !.openSelectKey = @ - 1]
  /\ step' = Design
  /\ invoked' = ""
  /\ UNCHANGED <<logo, animation, isGenerating, error, imageSize, aspectRatio,
                 progressMessage, calls, intervals>>

\* checkApiKeyCatch sending the workflow back to Setup
checkApiKeyCatchReturnsToSetup(awaited) ==
  /\ checks[awaited] > 0
  /\ checks' = [checks EXCEPT ![awaited] = @ - 1]
  /\ error' = Some(KeyCheckFailedMessage)
  /\ step' = Setup
  /\ invoked' = ""
  /\ UNCHANGED <<logo, animation, isGenerating, imageSize, aspectRatio,
                 progressMessage, calls, intervals>>

\* line 50 or line 54 rejects: lines 57-59
checkApiKeyCatch(awaited) ==
  /\ checks[awaited] > 0
  /\ checks' = [checks EXCEPT ![awaited] = @ - 1]
  /\ error' = Some(KeyCheckFailedMessage)
  /\ invoked' = ""
  /\ UNCHANGED <<step, logo, animation, isGenerating, imageSize, aspectRatio,
                 progressMessage, calls, intervals>>

(***************************************************************************)
(* The catch and finally blocks shared in shape by handleGenerateLogo      *)
(* (src/App.tsx 75-86) and handleAnimate (107-118).                        *)
(***************************************************************************)
fallbackMessage(kind) ==
  IF kind = "logo" THEN LogoFallbackMessage ELSE AnimateFallbackMessage

\* lines 83-86 / 115-118
Finally(i) ==
  /\ intervals' = clearInterval(calls[i].interval)
  /\ isGenerating' = FALSE
  /\ calls' = RemoveAt(calls, i)

\* isAccessDenied comparing the whole message instead of searching it
isAccessDeniedExact(message) == message = EntityNotFound

isAccessDenied(message) == includes(message, EntityNotFound)

\* err.message || fallback
surfaced(message, kind) ==
  IF message # <<>> THEN message ELSE fallbackMessage(kind)

\* lines 75-82 / 107-114, then the finally block unless openSelectKey is awaited
Catch(i, message) ==
  IF isAccessDenied(message)
  THEN /\ error' = Some(AccessRecoveryMessage)
       /\ calls' = [calls EXCEPT ![i].pc = "openSelectKey", ![i].selects = @ + 1]
       /\ UNCHANGED <<intervals, isGenerating>>
  ELSE /\ error' = Some(surfaced(message, calls[i].kind))
       /\ Finally(i)

\* the openSelectKey awaited in a catch block settles (resolved or rejected):
\* the finally block runs either way
catchSelectKeySettles(i) ==
  /\ i \in DOMAIN calls
  /\ calls[i].pc = "openSelectKey"
  /\ Finally(i)
  /\ invoked' = ""
  /\ UNCHANGED <<step, logo, animation, error, imageSize, aspectRatio,
                 progressMessage, checks>>

\* the interval callback, lines 66-69 / 94-97
tick(k) ==
  /\ k \in DOMAIN intervals
  /\ intervals[k].msgIndex < MaxTicks
  /\ progressMessage' =
       messagesOf(intervals[k].kind)[(intervals[k].msgIndex % 6) + 1]
  /\ intervals' = [intervals EXCEPT ![k].msgIndex = @ + 1]
  /\ invoked' = ""
  /\ UNCHANGED <<step, logo, animation, isGenerating, error, imageSize,
                 aspectRatio, calls, checks>>

(***************************************************************************)
(* handleGenerateLogo, src/App.tsx 62-87.                                  *)
(***************************************************************************)
NewCall(kind, prompt, pc, timer) ==
  [kind |-> kind, pc |-> pc, prompt |-> prompt, logo |-> logo,
   interval |-> timer.id, selects |-> 0, data |-> Null]

\* lines 63-72, up to the await of generateLogo
handleGenerateLogo(description) ==
  /\ Len(calls) < MaxCalls
  /\ isGenerating' = TRUE
  /\ error' = Null
  /\ LET timer == setInterval("logo")
     IN  /\ intervals' = Append(intervals, timer)
         /\ calls' = Append(calls, NewCall("logo", description, "generateContent", timer))
  /\ invoked' = "handleGenerateLogo"
  /\ UNCHANGED <<step, logo, animation, imageSize, aspectRatio, progressMessage,
                 checks>>

\* generateContentResolves clearing the logo when the generation failed
generateContentResolvesDropsLogo(i, response) ==
  /\ i \in DOMAIN calls
  /\ calls[i].pc = "generateContent"
  /\ LET result == generateLogo(response)
     IN  IF result.ok
         THEN /\ logo' = Some([url |-> result.value.url,
                               base64 |-> result.value.base64,
                               mimeType |-> result.value.mimeType,
                               prompt |-> calls[i].prompt])
              /\ step' = Design
              /\ Finally(i)
              /\ UNCHANGED error
         ELSE /\ Catch(i, result.message)
              /\ logo' = Null
              /\ UNCHANGED step
  /\ invoked' = ""
  /\ UNCHANGED <<animation, imageSize, aspectRatio, progressMessage, checks>>

\* generateContentResolves merging the result into the logo already held,
\* whose prompt it keeps
generateContentResolvesMerges(i, response) ==
  /\ i \in DOMAIN calls
  /\ calls[i].pc = "generateContent"
  /\ LET result == generateLogo(response)
     IN  IF result.ok
         THEN /\ logo' = Some([url |-> result.value.url,
                               base64 |-> result.value.base64,
                               mimeType |-> result.value.mimeType,
                               prompt |-> IF logo = Null THEN calls[i].prompt
                                          ELSE logo[1].prompt])
              /\ step' = Design
              /\ Finally(i)
              /\ UNCHANGED error
         ELSE /\ Catch(i, result.message)
              /\ UNCHANGED <<logo, step>>
  /\ invoked' = ""
  /\ UNCHANGED <<animation, imageSize, aspectRatio, progressMessage, checks>>

\* generateContent resolves with a response: generateLogo returns or throws
\* (src/types.ts 46-58), then lines 73-74 or the catch block
generateContentResolves(i, response) ==
  /\ i \in DOMAIN calls
  /\ calls[i].pc = "generateContent"
  /\ LET result == generateLogo(response)
     IN  IF result.ok
         THEN /\ logo' = Some([url |-> result.value.url,
                               base64 |-> result.value.base64,
                               mimeType |-> result.value.mimeType,
                               prompt |-> calls[i].prompt])
              /\ step' = Design
              /\ Finally(i)
              /\ UNCHANGED error
         ELSE /\ Catch(i, result.message)
              /\ UNCHANGED <<logo, step>>
  /\ invoked' = ""
  /\ UNCHANGED <<animation, imageSize, aspectRatio, progressMessage, checks>>

\* generateContent rejects (transport, auth, quota): the catch block
generateContentRejects(i, message) ==
  /\ i \in DOMAIN calls
  /\ calls[i].pc = "generateContent"
  /\ Catch(i, message)
  /\ invoked' = ""
  /\ UNCHANGED <<step, logo, animation, imageSize, aspectRatio, progressMessage,
                 checks>>


(***************************************************************************)
(* handleAnimate, src/App.tsx 89-119, with animateLogo, src/types.ts 61-94.*)
(***************************************************************************)
TypeErrorMessage == << "Cannot read properties of null (reading 'base64')" >>

\* handleAnimateReturnsEarly with the guard of line 90 left out
handleAnimateNeverReturnsEarly == FALSE

\* line 90
handleAnimateReturnsEarly == logo = Null

\* lines 91-104, up to the await of animateLogo, which has issued generateVideos.
\* Reading logo.base64 of an absent logo at line 101 throws inside the try block:
\* the catch and finally blocks then run before the handler yields.
handleAnimate(animPrompt) ==
  /\ invoked' = "handleAnimate"
  /\ IF handleAnimateReturnsEarly
     THEN UNCHANGED <<state, calls, checks, intervals>>
     ELSE /\ Len(calls) < MaxCalls
          /\ IF logo = Null
             THEN /\ error' = Some(TypeErrorMessage)
                  /\ isGenerating' = FALSE
                  /\ UNCHANGED <<calls, intervals>>
             ELSE /\ isGenerating' = TRUE
                  /\ error' = Null
                  /\ LET timer == setInterval("anim")
                     IN  /\ intervals' = Append(intervals, timer)
                         /\ calls' = Append(calls,
                               NewCall("anim", animPrompt, "generateVideos", timer))
          /\ UNCHANGED <<step, logo, animation, imageSize, aspectRatio,
                         progressMessage, checks>>

\* the image passed at lines 100-101
imageOf(call) == [base64 |-> call.logo[1].base64, mimeType |-> call.logo[1].mimeType]

\* afterOperation sleeping before it looks at the operation it was given by
\* generateVideos
afterOperationPollsFirst(i, operation) ==
  IF ~operation.done \/ calls[i].pc = "generateVideos"
  THEN /\ calls' = [calls EXCEPT ![i].pc = "sleep"]
       /\ UNCHANGED <<error, intervals, isGenerating>>
  ELSE IF operation.uri = Null
       THEN Catch(i, NoVideoLinkMessage)
       ELSE /\ calls' = [calls EXCEPT ![i].pc = "fetch", ![i].data = operation.uri]
            /\ UNCHANGED <<error, intervals, isGenerating>>

\* src/types.ts 83-91 for an operation handle just received: sleep when it is
\* not done, throw when it carries no link, else issue the fetch
afterOperation(i, operation) ==
  IF ~operation.done
  THEN /\ calls' = [calls EXCEPT ![i].pc = "sleep"]
       /\ UNCHANGED <<error, intervals, isGenerating>>
  ELSE IF operation.uri = Null
       THEN Catch(i, NoVideoLinkMessage)
       ELSE /\ calls' = [calls EXCEPT ![i].pc = "fetch", ![i].data = operation.uri]
            /\ UNCHANGED <<error, intervals, isGenerating>>

\* src/types.ts 68-80 resolves
generateVideosResolves(i, operation) ==
  /\ i \in DOMAIN calls
  /\ calls[i].pc = "generateVideos"
  /\ operation \in Operations(imageOf(calls[i]))
  /\ afterOperation(i, operation)
  /\ invoked' = ""
  /\ UNCHANGED <<step, logo, animation, imageSize, aspectRatio, progressMessage,
                 checks>>

\* src/types.ts 84: the 10 s timer fires and line 85 issues the status fetch
sleepElapses(i) ==
  /\ i \in DOMAIN calls
  /\ calls[i].pc = "sleep"
  /\ calls' = [calls EXCEPT ![i].pc = "getVideosOperation"]
  /\ invoked' = ""
  /\ UNCHANGED <<state, checks, intervals>>

\* src/types.ts 85 resolves
getVideosOperationResolves(i, operation) ==
  /\ i \in DOMAIN calls
  /\ calls[i].pc = "getVideosOperation"
  /\ operation \in Operations(imageOf(calls[i]))
  /\ afterOperation(i, operation)
  /\ invoked' = ""
  /\ UNCHANGED <<step, logo, animation, imageSize, aspectRatio, progressMessage,
                 checks>>

\* src/types.ts 91 resolves, with whatever status: line 92 asks for the body
fetchResolves(i, response) ==
  /\ i \in DOMAIN calls
  /\ calls[i].pc = "fetch"
  /\ response \in FetchResponses(calls[i].data[1])
  /\ calls' = [calls EXCEPT ![i].pc = "blob", ![i].data = Some(response.body)]
  /\ invoked' = ""
  /\ UNCHANGED <<state, checks, intervals>>

\* blobResolves showing View without storing the animation
blobResolvesWithoutStore(i) ==
  /\ i \in DOMAIN calls
  /\ calls[i].pc = "blob"
  /\ step' = View
  /\ Finally(i)
  /\ invoked' = ""
  /\ UNCHANGED <<logo, animation, error, imageSize, aspectRatio, progressMessage,
                 checks>>

\* blobResolves keeping the animation already held, if any
blobResolvesKeepsFirst(i) ==
  /\ i \in DOMAIN calls
  /\ calls[i].pc = "blob"
  /\ animation' = IF animation # Null THEN animation
                  ELSE Some([videoUrl |-> createObjectURL(calls[i].data[1]),
                             prompt |-> calls[i].prompt])
  /\ step' = View
  /\ Finally(i)
  /\ invoked' = ""
  /\ UNCHANGED <<logo, error, imageSize, aspectRatio, progressMessage, checks>>

\* src/types.ts 92 resolves: line 93, then src/App.tsx 105-106 and finally
blobResolves(i) ==
  /\ i \in DOMAIN calls
  /\ calls[i].pc = "blob"
  /\ animation' = Some([videoUrl |-> createObjectURL(calls[i].data[1]),
                        prompt |-> calls[i].prompt])
  /\ step' = View
  /\ Finally(i)
  /\ invoked' = ""
  /\ UNCHANGED <<logo, error, imageSize, aspectRatio, progressMessage, checks>>

\* one of the awaits of animateLogo rejects: the catch block of handleAnimate
animateLogoRejects(i, message) ==
  /\ i \in DOMAIN calls
  /\ calls[i].pc \in {"generateVideos", "getVideosOperation", "fetch", "blob"}
  /\ Catch(i, message)
  /\ invoked' = ""
  /\ UNCHANGED <<step, logo, animation, imageSize, aspectRatio, progressMessage,
                 checks>>

(***************************************************************************)
(* The rendered controls, src/App.tsx 145-148 and 161-407.                 *)
(***************************************************************************)
setStep(s) ==
  /\ step' = s
  /\ invoked' = ""
  /\ UNCHANGED <<logo, animation, isGenerating, error, imageSize, aspectRatio,
                 progressMessage, calls, checks, intervals>>

setImageSize(size) ==
  /\ imageSize' = size
  /\ invoked' = ""
  /\ UNCHANGED <<step, logo, animation, isGenerating, error, aspectRatio,
                 progressMessage, calls, checks, intervals>>

setAspectRatio(ratio) ==
  /\ aspectRatio' = ratio
  /\ invoked' = ""
  /\ UNCHANGED <<step, logo, animation, isGenerating, error, imageSize,
                 progressMessage, calls, checks, intervals>>

\* line 146
NavDesigner == setStep(Design)
\* NavAnimator never disabled
NavAnimatorAlwaysEnabled == setStep(Animate)
\* line 147: disabled without a logo
NavAnimator == logo # Null /\ setStep(Animate)
\* lines 170-176
ClickGetStarted == step = Setup /\ checkApiKey
\* lines 205-213
SelectImageSize == step = Design /\ \E size \in ChosenSizes : setImageSize(size)
\* lines 216-225
ClickGenerate ==
  step = Design /\ \E description \in Descriptions : handleGenerateLogo(description)
\* lines 262-270
ClickNext == step = Design /\ logo # Null /\ setStep(Animate)
\* line 279
ClickBackToDesign == step = Animate /\ logo # Null /\ setStep(Design)
\* lines 300-308
SelectAspectRatio ==
  step = Animate /\ logo # Null /\ \E ratio \in ChosenRatios : setAspectRatio(ratio)
\* lines 311-320
ClickAnimate ==
  step = Animate /\ logo # Null /\ \E animPrompt \in MotionPrompts : handleAnimate(animPrompt)
\* line 349
ClickChangeAnimation == step = View /\ animation # Null /\ setStep(Animate)
\* ClickCreateNew starting afresh: logo and animation are dropped
ClickCreateNewClears ==
  /\ step = View
  /\ animation # Null
  /\ step' = Design
  /\ logo' = Null
  /\ animation' = Null
  /\ invoked' = ""
  /\ UNCHANGED <<isGenerating, error, imageSize, aspectRatio, progressMessage,
                 calls, checks, intervals>>
\* lines 354-359
ClickCreateNew == step = View /\ animation # Null /\ setStep(Design)

(***************************************************************************)
(* The component after its first render, and its behaviours.               *)
(***************************************************************************)
Init ==
  /\ step = Setup
  /\ logo = Null
  /\ animation = Null
  /\ isGenerating = FALSE
  /\ error = Null
  /\ imageSize = "1K"
  /\ aspectRatio = "16:9"
  /\ progressMessage = ""
  /\ calls = <<>>
  /\ checks = [hasSelectedApiKey |-> 0, openSelectKey |-> 0]
  /\ intervals = <<>>
  /\ invoked = ""

\* promises settling and timers firing
CheckRejects ==
  \E awaited \in {"hasSelectedApiKey", "openSelectKey"} : checkApiKeyCatch(awaited)
Tick == \E k \in DOMAIN intervals : tick(k)
ContentResolves ==
  \E i \in DOMAIN calls : \E response \in Responses : generateContentResolves(i, response)
ContentRejects ==
  \E i \in DOMAIN calls : \E message \in ProviderMessages : generateContentRejects(i, message)
VideosResolves ==
  \E i \in DOMAIN calls : \E operation \in AllOperations : generateVideosResolves(i, operation)
SleepElapses == \E i \in DOMAIN calls : sleepElapses(i)
OperationResolves ==
  \E i \in DOMAIN calls : \E operation \in AllOperations : getVideosOperationResolves(i, operation)
FetchResolves ==
  \E i \in DOMAIN calls : \E response \in AllFetchResponses : fetchResolves(i, response)
BlobResolves == \E i \in DOMAIN calls : blobResolves(i)
AnimateRejects ==
  \E i \in DOMAIN calls : \E message \in ProviderMessages : animateLogoRejects(i, message)
SelectKeySettles == \E i \in DOMAIN calls : catchSelectKeySettles(i)

Settle ==
  \/ checkApiKeyHasKey
  \/ checkApiKeyNoKey
  \/ checkApiKeySelected
  \/ CheckRejects
  \/ Tick
  \/ ContentResolves
  \/ ContentRejects
  \/ VideosResolves
  \/ SleepElapses
  \/ OperationResolves
  \/ FetchResolves
  \/ BlobResolves
  \/ AnimateRejects
  \/ SelectKeySettles

\* the user acting on what is rendered.  The progress overlay (lines 121-130,
\* 151) is drawn above the controls while isGenerating and disables none of
\* them: no control carries a disabled attribute or a test that reads
\* isGenerating, so each stays usable from the keyboard.
Next ==
  \/ ClickGetStarted
  \/ NavDesigner
  \/ NavAnimator
  \/ SelectImageSize
  \/ ClickGenerate
  \/ ClickNext
  \/ ClickBackToDesign
  \/ SelectAspectRatio
  \/ ClickAnimate
  \/ ClickChangeAnimation
  \/ ClickCreateNew
  \/ Settle

Spec == Init /\ [][Next]_vars


(***************************************************************************)
(* The handlers called directly, with no screen in between: each is        *)
(* reached in any state, also in states in which no control would call     *)
(* it, and while other invocations are in flight.  The credential check,   *)
(* the option selects and the ticks are left out as in NextSubmissions.    *)
(***************************************************************************)
DriverGenerate == \E description \in Descriptions : handleGenerateLogo(description)
DriverAnimate == \E animPrompt \in MotionPrompts : handleAnimate(animPrompt)
DriverGoTo == \E s \in AppStep : setStep(s)

NextDriver ==
  \/ DriverGenerate
  \/ DriverAnimate
  \/ DriverGoTo
  \/ ContentResolves
  \/ ContentRejects
  \/ VideosResolves
  \/ SleepElapses
  \/ OperationResolves
  \/ FetchResolves
  \/ BlobResolves
  \/ AnimateRejects
  \/ SelectKeySettles

SpecDriver == Init /\ [][NextDriver]_vars


(***************************************************************************)
(* The workflow without the two option selects and the status-message      *)
(* ticks.  The selects write imageSize and aspectRatio and the ticks write  *)
(* progressMessage and the tick count of an interval; no other action      *)
(* reads any of the four.                                                  *)
(***************************************************************************)
NextWorkflow ==
  \/ ClickGetStarted
  \/ NavDesigner
  \/ NavAnimator
  \/ ClickGenerate
  \/ ClickNext
  \/ ClickBackToDesign
  \/ ClickAnimate
  \/ ClickChangeAnimation
  \/ ClickCreateNew
  \/ checkApiKeyHasKey
  \/ checkApiKeyNoKey
  \/ checkApiKeySelected
  \/ CheckRejects
  \/ ContentResolves
  \/ ContentRejects
  \/ VideosResolves
  \/ SleepElapses
  \/ OperationResolves
  \/ FetchResolves
  \/ BlobResolves
  \/ AnimateRejects
  \/ SelectKeySettles

SpecWorkflow == Init /\ [][NextWorkflow]_vars

(***************************************************************************)
(* The workflow with the option selects and without the ticks.             *)
(***************************************************************************)
NextOptions ==
  \/ NextWorkflow
  \/ SelectImageSize
  \/ SelectAspectRatio

SpecOptions == Init /\ [][NextOptions]_vars

(***************************************************************************)
(* The submissions alone: the workflow without the credential check and    *)
(* the two option selects, none of which a submission reads.               *)
(***************************************************************************)
NextSubmissions ==
  \/ NavDesigner
  \/ NavAnimator
  \/ ClickGenerate
  \/ ClickNext
  \/ ClickBackToDesign
  \/ ClickAnimate
  \/ ClickChangeAnimation
  \/ ClickCreateNew
  \/ ContentResolves
  \/ ContentRejects
  \/ VideosResolves
  \/ SleepElapses
  \/ OperationResolves
  \/ FetchResolves
  \/ BlobResolves
  \/ AnimateRejects
  \/ SelectKeySettles

\* the submissions with the ticks of their status messages
NextTicker ==
  \/ NextSubmissions
  \/ Tick

SpecTicker == Init /\ [][NextTicker]_vars

(***************************************************************************)
(* The submissions with a video provider that answers every request and    *)
(* never reports an operation done.  The 10 s timer of the poll loop fires *)
(* and the provider answers: weak fairness of both.                        *)
(***************************************************************************)
StalledOperation == [done |-> FALSE, uri |-> Null]
StalledVideosResolves ==
  \E i \in DOMAIN calls : generateVideosResolves(i, StalledOperation)
StalledOperationResolves ==
  \E i \in DOMAIN calls : getVideosOperationResolves(i, StalledOperation)

NextStalled ==
  \/ NavDesigner
  \/ NavAnimator
  \/ ClickGenerate
  \/ ClickNext
  \/ ClickBackToDesign
  \/ ClickAnimate
  \/ ContentResolves
  \/ ContentRejects
  \/ SelectKeySettles
  \/ StalledVideosResolves
  \/ SleepElapses
  \/ StalledOperationResolves

SpecStalled ==
  /\ Init
  /\ [][NextStalled]_vars
  /\ WF_vars(StalledVideosResolves)
  /\ WF_vars(SleepElapses)
  /\ WF_vars(StalledOperationResolves)

(***************************************************************************)
(* The submissions with a provider that answers and a timer that fires     *)
(* (weak fairness of each await of animateLogo), and a video operation     *)
(* that is reported done after finitely many polls (strong fairness of the *)
(* answer that says so), for each invocation in flight.                    *)
(***************************************************************************)
\* the awaits of animateLogo
AnimateLogoAwaits == {"generateVideos", "sleep", "getVideosOperation", "fetch", "blob"}

\* the invocation that holds timer t is inside animateLogo
InAnimateLogo(t) ==
  \E i \in DOMAIN calls : calls[i].interval = t /\ calls[i].pc \in AnimateLogoAwaits

\* the awaits of the invocation that holds timer t settling
VideosResolvesOf(t) ==
  \E i \in DOMAIN calls : \E operation \in AllOperations :
    calls[i].interval = t /\ generateVideosResolves(i, operation)
SleepElapsesOf(t) ==
  \E i \in DOMAIN calls : calls[i].interval = t /\ sleepElapses(i)
DoneOperationResolvesOf(t) ==
  \E i \in DOMAIN calls : \E operation \in AllOperations :
    calls[i].interval = t /\ operation.done /\ getVideosOperationResolves(i, operation)
FetchResolvesOf(t) ==
  \E i \in DOMAIN calls : \E response \in AllFetchResponses :
    calls[i].interval = t /\ fetchResolves(i, response)
BlobResolvesOf(t) ==
  \E i \in DOMAIN calls : calls[i].interval = t /\ blobResolves(i)

SpecFair ==
  /\ Init
  /\ [][NextSubmissions]_vars
  /\ \A t \in 1..MaxCalls :
       /\ WF_vars(VideosResolvesOf(t))
       /\ WF_vars(SleepElapsesOf(t))
       /\ SF_vars(DoneOperationResolvesOf(t))
       /\ WF_vars(FetchResolvesOf(t))
       /\ WF_vars(BlobResolvesOf(t))

\* the timers of the poll loop and the provider requests of an animation
\* call that are outstanding, src/types.ts 68, 84, 85
sleepTimers(call) == IF call.pc = "sleep" THEN 1 ELSE 0
operationRequests(call) ==
  IF call.pc \in {"generateVideos", "getVideosOperation"} THEN 1 ELSE 0

\* the object URLs animateLogo can return for the image of a logo
AnimationUrls(lg) ==
  {createObjectURL(response.body) :
     response \in FetchResponses(VideoUri([base64 |-> lg.base64,
                                           mimeType |-> lg.mimeType]))}

(***************************************************************************)
(* generateLogo on every response: a logo submission is in flight on       *)
(* Design, made with any description and image size, with or without an    *)
(* earlier logo, and the response the provider is about to give, any of    *)
(* AllResponses, is held in the data field of the invocation.  The one     *)
(* step is the arrival of that response.                                   *)
(***************************************************************************)
EarlierLogos ==
  {Null, Some([url |-> dataUrl("image/png", "AAAA"), base64 |-> "AAAA",
               mimeType |-> "image/png", prompt |-> "earlier"])}

InitGenerateLogo ==
  /\ step = Design
  /\ logo \in EarlierLogos
  /\ animation = Null
  /\ isGenerating = TRUE
  /\ error = Null
  /\ imageSize \in ChosenSizes
  /\ aspectRatio = "16:9"
  /\ progressMessage = ""
  /\ \E description \in Descriptions : \E response \in AllResponses :
       calls = << [NewCall("logo", description, "generateContent",
                           [id |-> 1, kind |-> "logo", msgIndex |-> 0])
                     EXCEPT !.data = Some(response)] >>
  /\ checks = [hasSelectedApiKey |-> 0, openSelectKey |-> 0]
  /\ intervals = << [id |-> 1, kind |-> "logo", msgIndex |-> 0] >>
  /\ invoked = "handleGenerateLogo"

ResponseArrives ==
  \E i \in DOMAIN calls :
    /\ calls[i].data # Null
    /\ generateContentResolves(i, calls[i].data[1])

NextGenerateLogo == ResponseArrives

SpecGenerateLogo == InitGenerateLogo /\ [][NextGenerateLogo]_vars

\* the parts of the first candidate that carry an inline payload, in order
InlineParts(response) ==
  SelectSeq(FirstCandidateParts(response), LAMBDA part : part.inlineData # Null)

(***************************************************************************)
(* Steps of a handler invocation, recognised from outside.                 *)
(***************************************************************************)
\* a handler invocation starts / the invocation at position i finishes
Starts == Len(calls') > Len(calls)
Finishes(i) == i \in DOMAIN calls /\ calls' = RemoveAt(calls, i)
\* the step moves the invocation at position i on, or finishes it: its record
\* is at no position afterwards (invocations in flight together hold
\* different timers, so their records differ)
Resumes(i) == i \in DOMAIN calls /\ \A j \in DOMAIN calls' : calls'[j] # calls[i]

\* every message a generation can fail with
FailureMessages == ProviderMessages \cup {NoImageMessage, NoVideoLinkMessage}

\* the generation awaited by invocation i fails with this message
FailsWith(i, message) ==
  \/ message \in ProviderMessages /\ generateContentRejects(i, message)
  \/ message \in ProviderMessages /\ animateLogoRejects(i, message)
  \/ /\ calls[i].pc = "generateContent"
     /\ \E response \in Responses :
          /\ generateLogo(response) = Thrown(message)
          /\ generateContentResolves(i, response)
  \/ /\ message = NoVideoLinkMessage
     /\ calls[i].pc \in {"generateVideos", "getVideosOperation"}
     /\ \E operation \in AllOperations :
          /\ operation.done
          /\ operation.uri = Null
          /\ \/ generateVideosResolves(i, operation)
             \/ getVideosOperationResolves(i, operation)

\* no part of any candidate of the response carries an inline payload
ZeroInline(response) ==
  \A c \in DOMAIN response : \A k \in DOMAIN response[c] :
    response[c][k].inlineData = Null

(***************************************************************************)
(* C1.  In every reachable state, step = Animate or View implies that logo *)
(* is populated; so no navigation reaches Animate while logo is absent.    *)
(***************************************************************************)
C1_LogoOnAnimateAndView == step \in {Animate, View} => logo # Null

\* Animate is shown with a logo, after a failure has been reported
C1_Witness == step = Animate /\ logo # Null /\ error # Null /\ ~isGenerating

(***************************************************************************)
(* C2.  In every reachable state, step = View implies that animation is    *)
(* populated; the step becomes View only in the step that finishes an      *)
(* animation submission and stores its animation, and a stored animation   *)
(* is never cleared.                                                       *)
(***************************************************************************)
C2_AnimationOnView ==
  /\ [](step = View => animation # Null)
  /\ [][(step # View /\ step' = View) =>
          /\ \E i \in DOMAIN calls : calls[i].kind = "anim" /\ Finishes(i)
          /\ animation' # Null]_vars
  /\ [][animation # Null => animation' # Null]_vars

\* View is shown with the animation of a finished submission
C2_Witness == step = View /\ animation # Null /\ calls = <<>>

(***************************************************************************)
(* C3.  In every reachable state, animation is populated only if logo is.  *)
(***************************************************************************)
C3_AnimationNeedsLogo == animation # Null => logo # Null

\* an animation is held, and a later regeneration of the logo has failed
C3_Witness ==
  animation # Null /\ logo # Null /\ error = Some(NoImageMessage) /\ calls = <<>>

(***************************************************************************)
(* C4.  At most one generation (logo or animation, counted together) is in *)
(* flight at any time, and a submission starts only while isGenerating is  *)
(* false.  As stated, this does not hold: the Generate and Animate buttons *)
(* stay usable while isGenerating is true.                                 *)
(***************************************************************************)
C4_OneGenerationInFlight ==
  /\ [](Len(calls) <= 1)
  /\ [][Starts => ~isGenerating]_vars

\* an animation submission and a logo submission made during it are both in
\* flight
C4_Witness ==
  /\ Len(calls) = 2
  /\ calls[1].kind = "anim"
  /\ calls[2].kind = "logo"
  /\ isGenerating

(***************************************************************************)
(* C5.  isGenerating goes from true to false exactly once per submission:  *)
(* it becomes true in the step that starts the submission, becomes false   *)
(* in the step that finishes it, whether it succeeded or failed, and       *)
(* changes in no other step.  As stated, this does not hold: a submission  *)
(* can start while isGenerating is true and finish while it is false.      *)
(***************************************************************************)
C5_BusyFallsOncePerCall ==
  /\ [][Starts => ~isGenerating /\ isGenerating']_vars
  /\ [][\A i \in DOMAIN calls : Finishes(i) => isGenerating /\ ~isGenerating']_vars
  /\ [][isGenerating' # isGenerating =>
          Starts \/ \E i \in DOMAIN calls : Finishes(i)]_vars

(***************************************************************************)
(* C5, what holds of it.  The step that starts a submission ends with      *)
(* isGenerating true, the step that finishes one, whether it succeeded or  *)
(* failed, ends with isGenerating false, and isGenerating changes in no    *)
(* other step.                                                             *)
(***************************************************************************)
C5_BusySetAndReset ==
  /\ [][Starts => isGenerating']_vars
  /\ [][\A i \in DOMAIN calls : Finishes(i) => ~isGenerating']_vars
  /\ [][isGenerating' # isGenerating =>
          Starts \/ \E i \in DOMAIN calls : Finishes(i)]_vars

\* of two submissions in flight together one has finished: isGenerating is
\* false while the other still waits for the provider
C5_Witness ==
  /\ ~isGenerating
  /\ Len(calls) = 1
  /\ calls[1].pc = "generateContent"

(***************************************************************************)
(* C6.  animateLogo is never running for an absent logo: an animation      *)
(* submission made while logo is absent issues no request and leaves       *)
(* step, logo, animation, isGenerating, error and everything else as it    *)
(* was.                                                                    *)
(***************************************************************************)
C6_NoAnimationWithoutLogo ==
  /\ [](\A i \in DOMAIN calls : calls[i].kind = "anim" => calls[i].logo # Null)
  /\ [][(invoked' = "handleAnimate" /\ logo = Null) =>
          UNCHANGED <<state, calls, checks, intervals>>]_vars

\* handleAnimate has just been called on the Animate step with no logo
C6_Witness == invoked = "handleAnimate" /\ logo = Null /\ step = Animate

(***************************************************************************)
(* C7.  A response with no inline payload makes generateLogo throw the     *)
(* no-image error, and logo keeps the value it had when the submission was *)
(* made.  As stated, this does not hold: a submission made during the      *)
(* first can have stored a logo in between.                                *)
(***************************************************************************)
C7_NoImageKeepsLogo ==
  [][\A i \in DOMAIN calls : calls[i].pc = "generateContent" =>
       \A response \in Responses :
         (ZeroInline(response) /\ generateContentResolves(i, response)) =>
            /\ generateLogo(response) = Thrown(NoImageMessage)
            /\ error' = Some(NoImageMessage)
            /\ logo' = calls[i].logo
            /\ logo' = logo
            /\ Finishes(i)]_vars

(***************************************************************************)
(* C7, what holds of it.  A response with no inline payload makes          *)
(* generateLogo throw the no-image error, which is shown, and the step     *)
(* that handles it leaves logo as it is.                                   *)
(***************************************************************************)
C7_NoImageLeavesLogo ==
  [][\A i \in DOMAIN calls : calls[i].pc = "generateContent" =>
       \A response \in Responses :
         (ZeroInline(response) /\ generateContentResolves(i, response)) =>
            /\ generateLogo(response) = Thrown(NoImageMessage)
            /\ error' = Some(NoImageMessage)
            /\ logo' = logo
            /\ Finishes(i)]_vars

\* the no-image error is shown and the earlier logo is still there
C7_Witness ==
  error = Some(NoImageMessage) /\ logo # Null /\ calls = <<>> /\ animation = Null

(***************************************************************************)
(* C8.  When a submission fails with a message that contains "Requested    *)
(* entity was not found", error becomes the access-recovery message and    *)
(* openSelectKey is called once; no further provider request is made, and  *)
(* when openSelectKey settles the invocation finishes without calling it   *)
(* again.                                                                  *)
(***************************************************************************)
C8_AccessDeniedSelectsOnce ==
  /\ [][\A i \in DOMAIN calls : Resumes(i) => \A message \in FailureMessages :
          (FailsWith(i, message) /\ includes(message, EntityNotFound)) =>
             /\ error' = Some(AccessRecoveryMessage)
             /\ calls' = [calls EXCEPT ![i].pc = "openSelectKey", ![i].selects = 1]]_vars
  /\ [][\A i \in DOMAIN calls :
          (calls[i].pc = "openSelectKey" /\ Resumes(i)) =>
             catchSelectKeySettles(i) /\ Finishes(i)]_vars
  /\ [](\A i \in DOMAIN calls :
          calls[i].selects = (IF calls[i].pc = "openSelectKey" THEN 1 ELSE 0))

\* an animation submission was denied: openSelectKey has been called once
C8_Witness ==
  \E i \in DOMAIN calls :
    /\ calls[i].kind = "anim"
    /\ calls[i].pc = "openSelectKey"
    /\ calls[i].selects = 1
    /\ error = Some(AccessRecoveryMessage)

(***************************************************************************)
(* C9.  For every failure of a submission other than access denied: error  *)
(* becomes the error's message verbatim, step is the step the submission   *)
(* was made from (Design for a logo, Animate for an animation),            *)
(* isGenerating is false.  As stated, this does not hold.                  *)
(***************************************************************************)
C9_VerbatimAndPriorStep ==
  [][\A i \in DOMAIN calls : Resumes(i) => \A message \in FailureMessages :
       (FailsWith(i, message) /\ ~includes(message, EntityNotFound)) =>
          /\ error' = Some(message)
          /\ step' = (IF calls[i].kind = "logo" THEN Design ELSE Animate)
          /\ ~isGenerating']_vars

(***************************************************************************)
(* C9, amended.  For every such failure: error becomes the error's message *)
(* verbatim when it is not empty and the fallback message of the handler   *)
(* when it is; the failure leaves step as it is; the invocation finishes   *)
(* with isGenerating false; and with isGenerating false the submission of  *)
(* the step shown (Generate on Design, Animate on Animate) can be made.    *)
(***************************************************************************)
C9_FailureSurfacedStepKept ==
  /\ [][\A i \in DOMAIN calls : Resumes(i) => \A message \in FailureMessages :
          (FailsWith(i, message) /\ ~includes(message, EntityNotFound)) =>
             /\ error' = Some(IF message # <<>> THEN message
                              ELSE IF calls[i].kind = "logo"
                                   THEN LogoFallbackMessage
                                   ELSE AnimateFallbackMessage)
             /\ step' = step
             /\ ~isGenerating'
             /\ Finishes(i)]_vars
  /\ []((~isGenerating /\ step = Design) => ENABLED ClickGenerate)
  /\ []((~isGenerating /\ step = Animate) => ENABLED ClickAnimate)

\* a failed animation submission: the provider's message is shown on Animate
C9_Witness ==
  /\ error = Some(<< "429 RESOURCE_EXHAUSTED" >>)
  /\ step = Animate
  /\ ~isGenerating
  /\ calls = <<>>

(***************************************************************************)
(* C10.  A credential check is started from Setup; when hasSelectedApiKey  *)
(* answers true, or openSelectKey returns, step becomes Design; when the   *)
(* check fails, error is set to the key-check message and step is Setup.   *)
(* As stated, this does not hold: the Designer button can set step to      *)
(* Design while the check is pending, and the failed check leaves it       *)
(* there.                                                                  *)
(***************************************************************************)
C10_FailedCheckStaysOnSetup ==
  [][/\ PendingChecks' > PendingChecks => step = Setup /\ UNCHANGED state
     /\ (checkApiKeyHasKey \/ checkApiKeySelected) => step' = Design
     /\ \A awaited \in {"hasSelectedApiKey", "openSelectKey"} :
          checkApiKeyCatch(awaited) =>
            error' = Some(KeyCheckFailedMessage) /\ step' = Setup]_vars

(***************************************************************************)
(* C10, what holds of it.  The same, except that a check that fails leaves *)
(* step as it is: Setup when nothing has moved the workflow since the      *)
(* check was started.                                                      *)
(***************************************************************************)
C10_CheckMovesOrStays ==
  [][/\ PendingChecks' > PendingChecks => step = Setup /\ UNCHANGED state
     /\ (checkApiKeyHasKey \/ checkApiKeySelected) => step' = Design
     /\ \A awaited \in {"hasSelectedApiKey", "openSelectKey"} :
          checkApiKeyCatch(awaited) =>
            error' = Some(KeyCheckFailedMessage) /\ step' = step]_vars

\* a credential check has failed on Design, where the Designer button had
\* moved the workflow while the check was pending; no submission was made
C10_Witness ==
  /\ error = Some(KeyCheckFailedMessage)
  /\ step = Design
  /\ PendingChecks = 0
  /\ logo = Null
  /\ calls = <<>>

(***************************************************************************)
(* C11.  A logo submission made with description D and any image size      *)
(* that succeeds stores a logo made of the returned url, base64 and mime    *)
(* type with prompt = D, nothing of the logo held before remaining; it     *)
(* ends on Design, and the invocation finishes with isGenerating false.    *)
(***************************************************************************)
C11_SuccessStoresLogo ==
  /\ [][\A description \in Descriptions :
          handleGenerateLogo(description) =>
            /\ calls' = Append(calls, calls'[Len(calls')])
            /\ calls'[Len(calls')].kind = "logo"
            /\ calls'[Len(calls')].prompt = description]_vars
  /\ [][\A i \in DOMAIN calls : calls[i].pc = "generateContent" =>
          \A response \in Responses :
            (generateLogo(response).ok /\ generateContentResolves(i, response)) =>
               /\ logo' = Some([url |-> generateLogo(response).value.url,
                                base64 |-> generateLogo(response).value.base64,
                                mimeType |-> generateLogo(response).value.mimeType,
                                prompt |-> calls[i].prompt])
               /\ step' = Design
               /\ ~isGenerating'
               /\ Finishes(i)]_vars

\* the logo of a second submission, of another description and size, is held
C11_Witness ==
  /\ logo # Null
  /\ logo[1].prompt = "open book and sun"
  /\ logo[1].mimeType = "image/jpeg"
  /\ imageSize = "4K"
  /\ animation # Null
  /\ animation[1].videoUrl = createObjectURL(<<"video", "iVBOR">>)
  /\ step = Design
  /\ ~isGenerating
  /\ error = Null

(***************************************************************************)
(* C12.  An animation submission made with motion prompt M while a logo is *)
(* held, when it succeeds, stores an animation with prompt = M and         *)
(* videoUrl = the object URL animateLogo returned, and sets step to View;  *)
(* when it fails, step is Animate and animation is what it was.  As        *)
(* stated, this does not hold: the Designer button, or a credential check  *)
(* still pending, can set step to Design while the call is in flight.      *)
(***************************************************************************)
C12_StoresOrStaysOnAnimate ==
  /\ [][\A animPrompt \in MotionPrompts :
          (logo # Null /\ handleAnimate(animPrompt)) =>
            /\ calls' = Append(calls, calls'[Len(calls')])
            /\ calls'[Len(calls')].kind = "anim"
            /\ calls'[Len(calls')].prompt = animPrompt]_vars
  /\ [][\A i \in DOMAIN calls : (calls[i].pc = "blob" /\ blobResolves(i)) =>
          /\ animation' = Some([videoUrl |-> createObjectURL(calls[i].data[1]),
                                prompt |-> calls[i].prompt])
          /\ step' = View]_vars
  /\ [][\A i \in DOMAIN calls : (calls[i].kind = "anim" /\ Resumes(i)) =>
          ((\/ \E message \in FailureMessages : FailsWith(i, message)
            \/ catchSelectKeySettles(i)) =>
              /\ step' = Animate
              /\ animation' = animation)]_vars

(***************************************************************************)
(* C12, what holds of it.  The success is as stated; a failure of an       *)
(* animation submission changes neither step nor animation.                *)
(***************************************************************************)
C12_StoresOrKeepsStep ==
  /\ [][\A animPrompt \in MotionPrompts :
          (logo # Null /\ handleAnimate(animPrompt)) =>
            /\ calls' = Append(calls, calls'[Len(calls')])
            /\ calls'[Len(calls')].kind = "anim"
            /\ calls'[Len(calls')].prompt = animPrompt]_vars
  /\ [][\A i \in DOMAIN calls : (calls[i].pc = "blob" /\ blobResolves(i)) =>
          /\ animation' = Some([videoUrl |-> createObjectURL(calls[i].data[1]),
                                prompt |-> calls[i].prompt])
          /\ step' = View]_vars
  /\ [][\A i \in DOMAIN calls : (calls[i].kind = "anim" /\ Resumes(i)) =>
          ((\/ \E message \in FailureMessages : FailsWith(i, message)
            \/ catchSelectKeySettles(i)) =>
              /\ step' = step
              /\ animation' = animation)]_vars

\* an animation submission has failed on Design, where the Designer button
\* or a credential check that completed during the call had moved the workflow
C12_Witness ==
  /\ step = Design
  /\ logo # Null
  /\ animation = Null
  /\ error = Some(NoVideoLinkMessage)
  /\ ~isGenerating
  /\ calls = <<>>

(***************************************************************************)
(* C13.  The status-message interval of a submission is cleared when the   *)
(* generation call it awaits settles: the interval callback runs only      *)
(* while that call is pending, and no interval is set while isGenerating   *)
(* is false.  As stated, this does not hold: an interval is still set      *)
(* while isGenerating is false when a submission made during another has   *)
(* finished, and after an access-denied failure the interval runs on while *)
(* openSelectKey is awaited.                                               *)
(***************************************************************************)
C13_NoTickAfterSettle ==
  /\ [][\A k \in DOMAIN intervals : tick(k) =>
          \E i \in DOMAIN calls :
            /\ calls[i].interval = intervals[k].id
            /\ calls[i].pc # "openSelectKey"]_vars
  /\ [](~isGenerating => intervals = <<>>)

(***************************************************************************)
(* C13, what holds of it.  The interval of a submission is cleared in the  *)
(* step that finishes the submission, and in no other: every interval set  *)
(* belongs to a submission that has not finished, the step that finishes a *)
(* submission clears its interval and no other, and a submission finishes  *)
(* when its generation call succeeds or fails otherwise than by access     *)
(* denied.                                                                 *)
(***************************************************************************)
C13_TickerStopsWithCall ==
  /\ [](\A k \in DOMAIN intervals :
          \E i \in DOMAIN calls : calls[i].interval = intervals[k].id)
  /\ [](\A i \in DOMAIN calls :
          \E k \in DOMAIN intervals : intervals[k].id = calls[i].interval)
  /\ [][\A i \in DOMAIN calls : Finishes(i) =>
          intervals' = SelectSeq(intervals, LAMBDA t : t.id # calls[i].interval)]_vars
  /\ [][(\A i \in DOMAIN calls : ~Finishes(i)) =>
          \A k \in DOMAIN intervals :
            k \in DOMAIN intervals' /\ intervals'[k].id = intervals[k].id]_vars
  /\ [][\A i \in DOMAIN calls : Resumes(i) =>
          ((\/ calls[i].pc = "blob" /\ blobResolves(i)
            \/ /\ calls[i].pc = "generateContent"
               /\ \E response \in Responses :
                    generateLogo(response).ok /\ generateContentResolves(i, response)
            \/ \E message \in FailureMessages :
                 FailsWith(i, message) /\ ~includes(message, EntityNotFound))
           => Finishes(i))]_vars

\* of two submissions in flight together one has finished: isGenerating is
\* false and the interval of the other is set and has ticked
C13_Witness ==
  /\ ~isGenerating
  /\ Len(intervals) = 1
  /\ intervals[1].msgIndex = 1
  /\ Len(calls) = 1

(***************************************************************************)
(* C14.  With a video operation that never reports completion, an          *)
(* animation call once started stays in flight with isGenerating true for  *)
(* ever; it sleeps and asks for the status again and again; at every       *)
(* moment it has at most one sleep timer or one provider request           *)
(* outstanding, and an iteration of the loop leaves nothing behind: back   *)
(* at the sleep the call is what it was one iteration before.  As stated,  *)
(* this does not hold: isGenerating does not stay true.                    *)
(***************************************************************************)
C14_StalledStaysBusy ==
  /\ [](\A i \in DOMAIN calls : calls[i].kind = "anim" => isGenerating)
  /\ [][\A i \in DOMAIN calls : calls[i].kind = "anim" => ~Finishes(i)]_vars
  /\ [](\A i \in DOMAIN calls :
          sleepTimers(calls[i]) + operationRequests(calls[i]) <= 1)

(***************************************************************************)
(* C14, what holds of it.  The animation call stays in flight for ever,    *)
(* sleeping and asking again and again, with at most one sleep timer or    *)
(* one provider request outstanding, and an iteration changes nothing but  *)
(* the place the call waits at.                                            *)
(***************************************************************************)
C14_StalledPollsForever ==
  /\ [][\A i \in DOMAIN calls : calls[i].kind = "anim" => ~Finishes(i)]_vars
  /\ []((\E i \in DOMAIN calls : calls[i].kind = "anim") =>
          [](\E i \in DOMAIN calls : calls[i].kind = "anim"))
  /\ []((\E i \in DOMAIN calls : calls[i].kind = "anim") =>
          <>(\E i \in DOMAIN calls : calls[i].pc = "sleep"))
  /\ []((\E i \in DOMAIN calls : calls[i].kind = "anim") =>
          <>(\E i \in DOMAIN calls : calls[i].pc = "getVideosOperation"))
  /\ [](\A i \in DOMAIN calls :
          sleepTimers(calls[i]) + operationRequests(calls[i]) <= 1)
  /\ [][\A i \in DOMAIN calls :
          (calls[i].pc = "getVideosOperation" /\ Resumes(i)) =>
             /\ calls' = [calls EXCEPT ![i].pc = "sleep"]
             /\ UNCHANGED <<state, intervals>>]_vars
  /\ [][\A i \in DOMAIN calls :
          (calls[i].pc = "sleep" /\ Resumes(i)) =>
             /\ calls' = [calls EXCEPT ![i].pc = "getVideosOperation"]
             /\ UNCHANGED <<state, intervals>>]_vars

\* the animation call polls on while isGenerating is false: a logo
\* submission made during it has finished
C14_Witness ==
  /\ ~isGenerating
  /\ \E i \in DOMAIN calls : calls[i].kind = "anim" /\ calls[i].pc = "getVideosOperation"

(***************************************************************************)
(* C15.  Whenever animation is populated, logo is populated and the        *)
(* animation is one generated from that logo, also after the logo has been *)
(* regenerated.  As stated, this does not hold: a regeneration replaces    *)
(* logo and leaves animation.                                              *)
(***************************************************************************)
C15_AnimationOfCurrentLogo ==
  animation # Null =>
    logo # Null /\ animation[1].videoUrl \in AnimationUrls(logo[1])

(***************************************************************************)
(* C15, amended.  Whenever animation is populated, logo is populated.  An  *)
(* animation submission takes the logo held when it is made, and the       *)
(* animation it stores is one generated from that logo; a successful logo  *)
(* submission replaces logo and leaves animation as it is.                 *)
(***************************************************************************)
C15_AnimationOfSubmittedLogo ==
  /\ [](animation # Null => logo # Null)
  /\ [](\A i \in DOMAIN calls : calls[i].kind = "anim" => calls[i].logo # Null)
  /\ [][\A animPrompt \in MotionPrompts :
          (logo # Null /\ handleAnimate(animPrompt)) =>
             calls'[Len(calls')].logo = logo]_vars
  /\ [][\A i \in DOMAIN calls : (calls[i].pc = "blob" /\ blobResolves(i)) =>
          animation'[1].videoUrl \in AnimationUrls(calls[i].logo[1])]_vars
  /\ [][\A i \in DOMAIN calls : calls[i].pc = "generateContent" =>
          \A response \in Responses :
            (generateLogo(response).ok /\ generateContentResolves(i, response)) =>
               animation' = animation]_vars

\* the logo has been regenerated after an animation of the earlier one was
\* stored: the animation held is not one of the logo held
C15_Witness ==
  /\ animation # Null
  /\ logo # Null
  /\ animation[1].videoUrl \notin AnimationUrls(logo[1])
  /\ step = Design
  /\ ~isGenerating
  /\ calls = <<>>

(***************************************************************************)
(* C16.  When the fetch of the video fails, by rejecting or by answering   *)
(* with an error status, animateLogo throws: error is set, animation and   *)
(* step are left as they are, and the call finishes or goes on to          *)
(* openSelectKey.  As stated, this does not hold: an answer with an error   *)
(* status is read like a video.                                            *)
(***************************************************************************)
C16_FailedDownloadFails ==
  [][\A i \in DOMAIN calls : (calls[i].pc = "fetch" /\ Resumes(i)) =>
       ((\/ \E message \in ProviderMessages : animateLogoRejects(i, message)
         \/ \E response \in AllFetchResponses :
              response.status # 200 /\ fetchResolves(i, response))
        => /\ error' # Null
           /\ animation' = animation
           /\ step' = step
           /\ Finishes(i) \/ calls'[i].pc = "openSelectKey")]_vars

(***************************************************************************)
(* C16, what holds of it.  When the fetch rejects, animateLogo throws:     *)
(* error is set, animation and step are left as they are, and the call     *)
(* finishes or goes on to openSelectKey.                                   *)
(***************************************************************************)
C16_RejectedDownloadFails ==
  [][\A i \in DOMAIN calls : (calls[i].pc = "fetch" /\ Resumes(i)) =>
       ((\E message \in ProviderMessages : animateLogoRejects(i, message))
        => /\ error' # Null
           /\ animation' = animation
           /\ step' = step
           /\ Finishes(i) \/ calls'[i].pc = "openSelectKey")]_vars

\* View shows, as the animation, the error page of a download that answered
\* with an error status
C16_Witness ==
  /\ step = View
  /\ animation # Null
  /\ animation[1].videoUrl = createObjectURL(<< "error page" >>)
  /\ error = Null
  /\ ~isGenerating

(***************************************************************************)
(* C17.  step leaves Setup only in a step in which a credential check      *)
(* completes without error: no control offered on Setup, the nav-bar       *)
(* buttons included, changes step.  As stated, this does not hold: the     *)
(* Designer button sets step to Design on Setup as anywhere.               *)
(***************************************************************************)
C17_SetupLeftByCheckOnly ==
  [][(step = Setup /\ step' # Setup) =>
       (checkApiKeyHasKey \/ checkApiKeySelected)]_vars

(***************************************************************************)
(* C17, what holds of it.  step leaves Setup for Design only, by a         *)
(* credential check that completes without error or by the nav-bar         *)
(* Designer button; the Animator button is disabled on Setup.              *)
(***************************************************************************)
C17_SetupLeftByCheckOrDesigner ==
  /\ [][(step = Setup /\ step' # Setup) =>
          /\ step' = Design
          /\ checkApiKeyHasKey \/ checkApiKeySelected \/ NavDesigner]_vars
  /\ [](step = Setup => logo = Null /\ ~ENABLED NavAnimator)

\* a logo has been generated while the only credential check started is
\* still waiting for its answer
C17_Witness ==
  /\ step = Design
  /\ PendingChecks = 1
  /\ logo # Null
  /\ error = Null

(***************************************************************************)
(* C18.  In animateLogo: a sleep is followed by one status request and     *)
(* nothing else; an answer that says done, to generateVideos or to a       *)
(* status request, ends the loop with no further sleep or request, and one *)
(* that says not done is followed by one sleep; the download link is read, *)
(* and the download started, only in the step that receives a done         *)
(* operation; a status request that rejects ends the call with an error;   *)
(* and when the operation is reported done after finitely many polls, the  *)
(* call terminates.                                                        *)
(***************************************************************************)
C18_PollLoop ==
  /\ [](\A i \in DOMAIN calls :
          sleepTimers(calls[i]) + operationRequests(calls[i]) <= 1)
  /\ [][\A i \in DOMAIN calls : (calls[i].pc = "sleep" /\ Resumes(i)) =>
          /\ calls' = [calls EXCEPT ![i].pc = "getVideosOperation"]
          /\ UNCHANGED <<state, intervals>>]_vars
  /\ [][\A i \in DOMAIN calls :
          (calls[i].pc \in {"generateVideos", "getVideosOperation"} /\ Resumes(i)) =>
            \A operation \in AllOperations :
              (generateVideosResolves(i, operation)
                 \/ getVideosOperationResolves(i, operation)) =>
                 IF operation.done
                 THEN IF operation.uri = Null
                      THEN Finishes(i) /\ error' = Some(NoVideoLinkMessage)
                      ELSE calls' = [calls EXCEPT ![i].pc = "fetch",
                                                  ![i].data = operation.uri]
                 ELSE calls' = [calls EXCEPT ![i].pc = "sleep"]]_vars
  /\ [][\A i \in DOMAIN calls :
          (calls[i].pc # "fetch" /\ Resumes(i) /\ ~Finishes(i)
             /\ calls'[i].pc = "fetch") =>
            \E operation \in AllOperations :
              /\ operation.done
              /\ operation.uri # Null
              /\ generateVideosResolves(i, operation)
                   \/ getVideosOperationResolves(i, operation)]_vars
  /\ [][\A i \in DOMAIN calls : (calls[i].pc = "getVideosOperation" /\ Resumes(i)) =>
          \A message \in ProviderMessages : animateLogoRejects(i, message) =>
            /\ error' # Null
            /\ Finishes(i) \/ calls'[i].pc = "openSelectKey"
            /\ UNCHANGED <<step, animation>>]_vars
  /\ \A t \in 1..MaxCalls : InAnimateLogo(t) ~> ~InAnimateLogo(t)

\* the download of one animation call has started after a poll that found
\* the operation done, while another call still sleeps
C18_Witness ==
  \E i, j \in DOMAIN calls :
    /\ calls[i].pc = "fetch"
    /\ calls[i].data # Null
    /\ calls[j].pc = "sleep"

(***************************************************************************)
(* C19.  When a submission fails by access denied, openSelectKey is called *)
(* with isGenerating true and isGenerating stays true while the call is    *)
(* awaited; isGenerating becomes false in the step in which openSelectKey  *)
(* settles, by returning or by throwing (the finally block runs on both),  *)
(* and in no earlier step.  As stated, this does not hold: a submission    *)
(* made during the failed one resets isGenerating when it finishes.        *)
(***************************************************************************)
C19_BusyUntilSelectSettles ==
  /\ [][\A i \in DOMAIN calls : Resumes(i) => \A message \in FailureMessages :
          (FailsWith(i, message) /\ includes(message, EntityNotFound)) =>
             /\ isGenerating
             /\ isGenerating'
             /\ calls' = [calls EXCEPT ![i].pc = "openSelectKey", ![i].selects = 1]]_vars
  /\ [](\A i \in DOMAIN calls : calls[i].pc = "openSelectKey" => isGenerating)
  /\ [][\A i \in DOMAIN calls : (calls[i].pc = "openSelectKey" /\ Resumes(i)) =>
          (catchSelectKeySettles(i) /\ ~isGenerating' /\ Finishes(i))]_vars

(***************************************************************************)
(* C19, what holds of it.  The step in which a submission fails by access  *)
(* denied calls openSelectKey and leaves isGenerating as it is; the        *)
(* invocation resets isGenerating in the step in which openSelectKey       *)
(* settles, by returning or by throwing, and finishes there.               *)
(***************************************************************************)
C19_ResetAfterSelectSettles ==
  /\ [][\A i \in DOMAIN calls : Resumes(i) => \A message \in FailureMessages :
          (FailsWith(i, message) /\ includes(message, EntityNotFound)) =>
             /\ isGenerating' = isGenerating
             /\ calls' = [calls EXCEPT ![i].pc = "openSelectKey", ![i].selects = 1]]_vars
  /\ [][\A i \in DOMAIN calls : (calls[i].pc = "openSelectKey" /\ Resumes(i)) =>
          (catchSelectKeySettles(i) /\ ~isGenerating' /\ Finishes(i))]_vars

\* a logo submission was denied access and awaits openSelectKey while
\* isGenerating is false: a submission made during it has finished
C19_Witness ==
  /\ ~isGenerating
  /\ Len(calls) = 1
  /\ calls[1].kind = "logo"
  /\ calls[1].pc = "openSelectKey"

(***************************************************************************)
(* C20.  Each navigation control (Back to Design on Animate, Change        *)
(* Animation and Create New on View, Next on Design, Designer and Animator *)
(* in the nav bar) sets step to its target and leaves logo, animation,     *)
(* isGenerating, error, imageSize and aspectRatio unchanged.               *)
(***************************************************************************)
C20_NavigationChangesStepOnly ==
  /\ [][(\/ NavDesigner \/ NavAnimator \/ ClickNext
          \/ ClickBackToDesign \/ ClickChangeAnimation \/ ClickCreateNew) =>
            UNCHANGED <<logo, animation, isGenerating, error, imageSize,
                        aspectRatio, progressMessage, calls, intervals>>]_vars
  /\ [][ClickBackToDesign => (step = Animate /\ step' = Design)]_vars
  /\ [][ClickChangeAnimation => (step = View /\ step' = Animate)]_vars
  /\ [][ClickCreateNew => (step = View /\ step' = Design)]_vars
  /\ [][ClickNext => (step = Design /\ step' = Animate)]_vars
  /\ [][NavDesigner => step' = Design]_vars
  /\ [][NavAnimator => step' = Animate]_vars
  /\ [](step = View => ENABLED ClickCreateNew /\ ENABLED ClickChangeAnimation)

\* back on Design from View: the logo, its animation, the options chosen
\* and the error of a later attempt are all still there
C20_Witness ==
  /\ step = Design
  /\ logo # Null
  /\ animation # Null
  /\ animation[1].videoUrl \in AnimationUrls(logo[1])
  /\ imageSize = "4K"
  /\ aspectRatio = "9:16"
  /\ error = Some(AnimateFallbackMessage)
  /\ ~isGenerating

(***************************************************************************)
(* C21.  For every response, generateLogo returns the data of the first    *)
(* part of the first candidate that carries an inline payload, with the    *)
(* mime type the part declares or image/png when it declares none, and the *)
(* data URL made of the two; it throws the no-image error exactly when no  *)
(* part of the first candidate carries an inline payload, also when there  *)
(* is no candidate.  The handler stores what is returned and shows what is *)
(* thrown.                                                                 *)
(***************************************************************************)
C21_FirstInlinePart ==
  /\ [](\A i \in DOMAIN calls : calls[i].data # Null =>
          LET response == calls[i].data[1]
              inline == InlineParts(response)
              result == generateLogo(response)
          IN  /\ result.ok <=> inline # <<>>
              /\ inline = <<>> => result = Thrown(NoImageMessage)
              /\ Len(response) = 0 => result = Thrown(NoImageMessage)
              /\ inline # <<>> =>
                   LET first == inline[1].inlineData[1]
                       mime == IF first.mimeType = "" THEN "image/png"
                               ELSE first.mimeType
                   IN  result = Returned([url |-> <<"data:", mime, ";base64,", first.data>>,
                                          base64 |-> first.data,
                                          mimeType |-> mime]))
  /\ [][\A i \in DOMAIN calls : calls[i].data # Null =>
          LET inline == InlineParts(calls[i].data[1])
          IN  (ResponseArrives =>
                 IF inline = <<>>
                 THEN error' = Some(NoImageMessage) /\ logo' = logo
                 ELSE /\ logo' # Null
                      /\ logo'[1].base64 = inline[1].inlineData[1].data
                      /\ logo'[1].prompt = calls[i].prompt
                      /\ error' = Null)]_vars

\* the logo returned for a response whose first inline part declares no
\* mime type has replaced the earlier logo
C21_Witness ==
  /\ logo # Null
  /\ logo[1].base64 = "iVBOR"
  /\ logo[1].mimeType = "image/png"
  /\ logo[1].url = <<"data:", "image/png", ";base64,", "iVBOR">>
  /\ calls = <<>>
  /\ ~isGenerating
  /\ imageSize = "4K"

(***************************************************************************)
(* C22.  Once step is not Setup it is never Setup again: no control and no *)
(* completion of a check or of a submission sets step to Setup.            *)
(***************************************************************************)
C22_NeverBackToSetup ==
  /\ [][step # Setup => step' # Setup]_vars
  /\ [](step = Setup => logo = Null /\ animation = Null /\ calls = <<>>)

\* a credential check has failed after the workflow had left Setup: its
\* error is shown on Animate
C22_Witness ==
  /\ step = Animate
  /\ error = Some(KeyCheckFailedMessage)
  /\ PendingChecks = 0
  /\ logo # Null

(***************************************************************************)
(* C23.  error goes from set to absent only in the step that starts a      *)
(* submission; a credential check that succeeds changes step and nothing   *)
(* else, error included; and a submission that succeeds ends with error    *)
(* absent.  As stated, this does not hold: a credential check that fails   *)
(* while a submission is in flight sets error, and the success leaves it.  *)
(***************************************************************************)
C23_ErrorClearedAtStartOnly ==
  /\ [][(error # Null /\ error' = Null) => Starts]_vars
  /\ [][Starts => error' = Null]_vars
  /\ [][(checkApiKeyHasKey \/ checkApiKeySelected) =>
          UNCHANGED <<logo, animation, isGenerating, error, imageSize,
                      aspectRatio, progressMessage, calls, intervals>>]_vars
  /\ [][\A i \in DOMAIN calls : Resumes(i) =>
          ((\/ calls[i].pc = "blob" /\ blobResolves(i)
            \/ /\ calls[i].pc = "generateContent"
               /\ \E response \in Responses :
                    generateLogo(response).ok /\ generateContentResolves(i, response))
           => error' = Null)]_vars

(***************************************************************************)
(* C23, what holds of it.  The same, except that a submission that         *)
(* succeeds leaves error as it is, absent or not.                          *)
(***************************************************************************)
C23_ErrorKeptBySuccess ==
  /\ [][(error # Null /\ error' = Null) => Starts]_vars
  /\ [][Starts => error' = Null]_vars
  /\ [][(checkApiKeyHasKey \/ checkApiKeySelected) =>
          UNCHANGED <<logo, animation, isGenerating, error, imageSize,
                      aspectRatio, progressMessage, calls, intervals>>]_vars
  /\ [][\A i \in DOMAIN calls : Resumes(i) =>
          ((\/ calls[i].pc = "blob" /\ blobResolves(i)
            \/ /\ calls[i].pc = "generateContent"
               /\ \E response \in Responses :
                    generateLogo(response).ok /\ generateContentResolves(i, response))
           => error' = error)]_vars

\* the error of a failed credential check is shown on View, over the
\* animation of a submission that succeeded
C23_Witness ==
  /\ step = View
  /\ animation # Null
  /\ error = Some(KeyCheckFailedMessage)
  /\ ~isGenerating
  /\ PendingChecks = 0

====
